---------------------------- MODULE Spec2Model ----------------------------
(***************************************************************************)
(* bitcore: a shared serial connection (src/src/api.rs) on top of the      *)
(* handle driver (src/src/serial.rs).                                      *)
(*                                                                         *)
(* SharedConnection = Arc<Mutex<Option<SerialConnection>>>.  The mutex is  *)
(* conn_lock (its holder), the Option is shared_conn (a handle id, or      *)
(* None).  The serialport driver is the environment: every driver call     *)
(* chooses its outcome nondeterministically, except that a port that is    *)
(* open cannot be opened a second time (the driver opens exclusively).     *)
(*                                                                         *)
(* The timeout a handle is configured with is chosen by whoever builds the *)
(* SerialPortBuilder; api.rs sets none, so open picks any of Timeouts.     *)
(* The variable device fixes what the attached device does for a whole     *)
(* behaviour: "silent" never has bytes, "ready" always has bytes and       *)
(* delivers some, "any" leaves every driver outcome open.                  *)
(*                                                                         *)
(* Time is counted in milliseconds.  Only thread::sleep takes time, and it *)
(* takes exactly READ_POLL_SLEEP_MS; a driver call takes none.             *)
(*                                                                         *)
(* Spec is the shared connection with its callers; FairSpec adds the       *)
(* scheduling of the threads; SpecPanic adds a driver call that panics     *)
(* while the mutex is held, which poisons it.  SpecJson is the port        *)
(* descriptor of src/src/serial_types.rs written as JSON and read back.    *)
(***************************************************************************)
EXTENDS Integers, Naturals, Sequences, FiniteSets, TLC

\* ------------------------------------------------------------------ bounds
NumThreads == 2
MaxHandles == 2
MaxTimeoutSteps == 1
MaxDataLen == 2
MaxNameLen == 1
SpeedBits == 4

\* ------------------------------------------------------- program constants
READ_POLL_SLEEP_MS == 100
\* api/serial.rs: max_wait_time, the sleep of the poll loop, and the test's
\* number of invocations
MAX_WAIT_TIME_MS == 5000
OSP_SLEEP_MS == 100
ITERATIONS == 3

Threads == 1..NumThreads
Handles == 1..MaxHandles
None == 0
Ports == {"COM3", "COM4"}
\* timeouts in steps of one and a half poll intervals: 0, 150, 300, ...
Timeouts == {k * ((3 * READ_POLL_SLEEP_MS) \div 2) : k \in 0..MaxTimeoutSteps}
DataLens == 1..MaxDataLen
\* io::ErrorKind values the driver reports
DriverErrorKinds == {"BrokenPipe", "TimedOut"}
\* since_call is counted up to the first time above every T + poll interval
SinceCallCap == (MaxTimeoutSteps * ((3 * READ_POLL_SLEEP_MS) \div 2))
                + READ_POLL_SLEEP_MS
\* the device: never has bytes, always has bytes and delivers, or anything
DeviceBehaviours == {"silent", "ready", "any"}

VARIABLES
    shared_conn,   \* Option<SerialConnection>: the slot's handle, or None
    conn_lock,     \* the thread holding the Mutex, or None
    handles,       \* driver side: every handle ever opened
    opened,        \* number of handles opened so far
    pc,            \* per thread: position in the operation it runs
    op,            \* per thread: the operation it runs
    arg,           \* per thread: timeout | data length
    port_name,     \* per thread: the port_name of its connect
    conn,          \* per thread: local `conn` (handle id) or None
    elapsed,       \* per thread: start_time.elapsed() of its read
    polls,         \* per thread: loop iterations of its read
    sleeps,        \* per thread: thread::sleep calls of its read
    last_poll,     \* per thread: what the last loop iteration of its read met
    since_call,    \* per thread: time since its read was called
    driverOps,     \* per thread: driver calls issued by the current call
    port_wrote,    \* per thread: what self.port.write(buf) returned to its write
    device,        \* how the attached device behaves when it is read
    dropped,       \* per thread: outcome of the close its call caused
    result,        \* per thread: the io::Result the call returned
    closedUse,     \* a driver call was issued on a handle that is not open
    raced,         \* a driver call was issued on a handle another call is using
    poisoned,      \* the Mutex is poisoned: a holder panicked
    info,          \* a SerialPortInfo, or Absent
    json,          \* Option<String>: a JSON text (tokens), or Absent
    parsed,        \* Option<SerialPortInfo> that from_json returned
    jpc,           \* position in the to_json / from_json round
    garbled,       \* the JSON text was damaged after to_json produced it
    osp_pc,        \* position in open_serial_port, or "idle" / "done"
    port_held,     \* open_serial_port's port is open (the driver holds it)
    osp_elapsed,   \* start_time.elapsed() of open_serial_port
    osp_met,       \* what the last driver call of open_serial_port met
    osp_result,    \* the Result open_serial_port returned
    osp_runs,      \* invocations of open_serial_port that have returned
    osp_errs       \* those of them that returned Err

connVars == <<shared_conn, conn_lock, handles, opened, pc, op, arg, port_name,
              conn, elapsed, polls, sleeps, last_poll, since_call, driverOps,
              port_wrote, device, dropped, result, closedUse, raced, poisoned>>

jsonVars == <<info, json, parsed, jpc, garbled>>

openVars == <<osp_pc, port_held, osp_elapsed, osp_met, osp_result, osp_runs,
              osp_errs>>

vars == <<connVars, jsonVars, openVars>>

\* what no operation of the shared connection writes
aside == <<device, poisoned, jsonVars, openVars>>

\* the arguments of the call
args == <<arg, port_name>>

\* the locals of a read, and those of any call
readLocals == <<elapsed, polls, sleeps, last_poll, since_call>>
locals == <<readLocals, port_wrote>>

NoHandle == [state |-> "unopened", port |-> "", timeout |-> 0,
             flushed |-> FALSE, closes |-> 0]
NoResult == [kind |-> "None", n |-> 0]
Ok(n) == [kind |-> "Ok", n |-> n]
Err(k) == [kind |-> k, n |-> 0]

\* Option::None and Option::Some(v) of the descriptor functions
Absent == [some |-> FALSE]
Some(v) == [some |-> TRUE, v |-> v]

IsOpen(h) == h # None /\ handles[h].state = "open"
OpenHandles == {h \in Handles : handles[h].state = "open"}

\* no descriptor is being converted
JsonIdle ==
    /\ info = Absent
    /\ json = Absent
    /\ parsed = Absent
    /\ jpc = "none"
    /\ garbled = FALSE

\* open_serial_port has not been called
OpenIdle ==
    /\ osp_pc = "idle"
    /\ port_held = FALSE
    /\ osp_elapsed = 0
    /\ osp_met = "none"
    /\ osp_result = NoResult
    /\ osp_runs = 0
    /\ osp_errs = 0

\* the slot is empty, nothing is open, no call is running
ConnIdle ==
    /\ shared_conn = None
    /\ conn_lock = None
    /\ handles = [h \in Handles |-> NoHandle]
    /\ opened = 0
    /\ pc = [t \in Threads |-> "idle"]
    /\ op = [t \in Threads |-> "none"]
    /\ arg = [t \in Threads |-> 0]
    /\ port_name = [t \in Threads |-> ""]
    /\ conn = [t \in Threads |-> None]
    /\ elapsed = [t \in Threads |-> 0]
    /\ polls = [t \in Threads |-> 0]
    /\ sleeps = [t \in Threads |-> 0]
    /\ last_poll = [t \in Threads |-> "none"]
    /\ since_call = [t \in Threads |-> 0]
    /\ driverOps = [t \in Threads |-> 0]
    /\ port_wrote = [t \in Threads |-> NoResult]
    /\ device \in DeviceBehaviours
    /\ dropped = [t \in Threads |-> "none"]
    /\ result = [t \in Threads |-> NoResult]
    /\ closedUse = FALSE
    /\ raced = FALSE
    /\ poisoned = FALSE

Init == ConnIdle /\ JsonIdle /\ OpenIdle

\* ----------------------------------------------------------------- helpers
\* positions at which a call has borrowed or owns the handle conn[t]
UsingHandle == {"c_flush", "c_lock", "r_loop", "r_sleep"}

\* drop(port): the driver closes the handle and keeps nothing of it
DropPort(hs, h) ==
    [hs EXCEPT ![h] = [state |-> "closed", port |-> "", timeout |-> 0,
                       flushed |-> FALSE, closes |-> hs[h].closes + 1]]

\* the driver's close succeeds or fails; drop reports neither
Drop(t, h) ==
    /\ handles' = DropPort(handles, h)
    /\ \E w \in {"ok", "warn"} : dropped' = [dropped EXCEPT ![t] = w]

\* the result handed to the caller
Finish(t, r) ==
    /\ result' = [result EXCEPT ![t] = r]
    /\ pc' = [pc EXCEPT ![t] = "done"]

\* mutant: the mutex is not taken
Lock_skipped(t) == TRUE

\* shared_conn.lock().unwrap() returns when no other thread holds the mutex
\* and the mutex is not poisoned
Lock(t) == conn_lock = None /\ ~poisoned

\* the MutexGuard is dropped when the function returns
Unlock == conn_lock' = None

Call(t, o, a, to) ==
    /\ pc[t] = "idle"
    /\ pc' = [pc EXCEPT ![t] = to]
    /\ op' = [op EXCEPT ![t] = o]
    /\ arg' = [arg EXCEPT ![t] = a]
    /\ UNCHANGED <<aside, shared_conn, conn_lock, handles, opened, conn,
                   locals, driverOps, dropped, result, closedUse, raced>>

\* k driver calls on handle h by thread t
Touch(t, h, k) ==
    /\ driverOps' = [driverOps EXCEPT ![t] = @ + k]
    /\ closedUse' = (closedUse \/ ~IsOpen(h))
    /\ raced' = (raced \/ \E u \in Threads \ {t} :
                              conn[u] = h /\ pc[u] \in UsingHandle)

\* ----------------------------------------------------------------- connect
connect_call(t) ==
    /\ opened < MaxHandles
    /\ Call(t, "connect", 0, "c_open")
    /\ \E p \in Ports : port_name' = [port_name EXCEPT ![t] = p]

\* SerialConnection::connect: spbuild.open()?
connect_open_ok(t) ==
    /\ pc[t] = "c_open"
    /\ opened < MaxHandles
    /\ \A h \in OpenHandles : handles[h].port # port_name[t]
    /\ \E tmo \in Timeouts :
         handles' = [handles EXCEPT ![opened + 1] =
                        [state |-> "open", port |-> port_name[t],
                         timeout |-> tmo,
                         flushed |-> FALSE, closes |-> 0]]
    /\ opened' = opened + 1
    /\ conn' = [conn EXCEPT ![t] = opened + 1]
    /\ driverOps' = [driverOps EXCEPT ![t] = @ + 1]
    /\ pc' = [pc EXCEPT ![t] = "c_flush"]
    /\ UNCHANGED <<aside, shared_conn, conn_lock, op, args, locals, dropped,
                   result, closedUse, raced>>

connect_open_err(t) ==
    /\ pc[t] = "c_open"
    /\ driverOps' = [driverOps EXCEPT ![t] = @ + 1]
    /\ \E k \in DriverErrorKinds : Finish(t, Err(k))
    /\ UNCHANGED <<aside, shared_conn, conn_lock, handles, opened, op, args,
                   conn, locals, dropped, closedUse, raced>>

\* mutant: the port is handed on without the flush
connect_flush_skipped(t) ==
    /\ pc[t] = "c_flush"
    /\ pc' = [pc EXCEPT ![t] = "c_lock"]
    /\ UNCHANGED <<aside, shared_conn, conn_lock, handles, opened, op, args,
                   conn, locals, driverOps, dropped, result, closedUse,
                   raced>>

\* SerialConnection::connect: port.flush()?
connect_flush_ok(t) ==
    /\ pc[t] = "c_flush"
    /\ Touch(t, conn[t], 1)
    /\ handles' = [handles EXCEPT ![conn[t]].flushed = TRUE]
    /\ pc' = [pc EXCEPT ![t] = "c_lock"]
    /\ UNCHANGED <<aside, shared_conn, conn_lock, opened, op, args, conn,
                   locals, dropped, result>>

\* mutant: the handle opened before the failed flush is kept open
connect_flush_err_leak(t) ==
    /\ pc[t] = "c_flush"
    /\ Touch(t, conn[t], 1)
    /\ \E k \in DriverErrorKinds : Finish(t, Err(k))
    /\ UNCHANGED <<aside, shared_conn, conn_lock, handles, opened, op, args,
                   conn, locals, dropped>>

\* the ? returns the error; `port` goes out of scope and is dropped
connect_flush_err(t) ==
    /\ pc[t] = "c_flush"
    /\ Touch(t, conn[t], 1)
    /\ Drop(t, conn[t])
    /\ \E k \in DriverErrorKinds : Finish(t, Err(k))
    /\ UNCHANGED <<aside, shared_conn, conn_lock, opened, op, args, conn,
                   locals>>

\* mutant: the connection that is replaced is forgotten, not dropped
connect_install_forgets(t) ==
    /\ pc[t] = "c_lock"
    /\ Lock(t)
    /\ shared_conn' = conn[t]
    /\ Unlock
    /\ Finish(t, Ok(0))
    /\ UNCHANGED <<aside, handles, dropped, opened, op, args, conn, locals,
                   driverOps, closedUse, raced>>

\* lock, then *conn_lock = Some(conn): the previous value of the slot is dropped
connect_install(t) ==
    /\ pc[t] = "c_lock"
    /\ Lock(t)
    /\ shared_conn' = conn[t]
    /\ IF shared_conn # None
         THEN Drop(t, shared_conn)
         ELSE UNCHANGED <<handles, dropped>>
    /\ Unlock
    /\ Finish(t, Ok(0))
    /\ UNCHANGED <<aside, opened, op, args, conn, locals, driverOps,
                   closedUse, raced>>

connect(t) ==
    \/ connect_call(t)
    \/ connect_open_ok(t)
    \/ connect_open_err(t)
    \/ connect_flush_ok(t)
    \/ connect_flush_err(t)
    \/ connect_install(t)

\* -------------------------------------------------------------- disconnect
disconnect_call(t) ==
    /\ Call(t, "disconnect", 0, "d_lock")
    /\ UNCHANGED port_name

\* mutant: a failure of the close is returned to the caller
disconnect_some_close_err(t) ==
    /\ pc[t] = "d_lock"
    /\ Lock(t)
    /\ shared_conn # None
    /\ conn' = [conn EXCEPT ![t] = shared_conn]
    /\ shared_conn' = None
    /\ Drop(t, shared_conn)
    /\ Unlock
    /\ Finish(t, IF dropped'[t] = "warn" THEN Err("Other") ELSE Ok(0))
    /\ UNCHANGED <<aside, opened, op, args, locals, driverOps, closedUse,
                   raced>>

\* conn_lock.take() is Some(conn): conn.disconnect() is drop(self.port); Ok(())
disconnect_some(t) ==
    /\ pc[t] = "d_lock"
    /\ Lock(t)
    /\ shared_conn # None
    /\ conn' = [conn EXCEPT ![t] = shared_conn]
    /\ shared_conn' = None
    /\ Drop(t, shared_conn)
    /\ Unlock
    /\ Finish(t, Ok(0))
    /\ UNCHANGED <<aside, opened, op, args, locals, driverOps, closedUse,
                   raced>>

\* mutant: a disconnect that finds the slot empty succeeds all the same
disconnect_none_ok(t) ==
    /\ pc[t] = "d_lock"
    /\ Lock(t)
    /\ shared_conn = None
    /\ Unlock
    /\ Finish(t, Ok(0))
    /\ UNCHANGED <<aside, shared_conn, handles, opened, op, args, conn,
                   locals, driverOps, dropped, closedUse, raced>>

\* conn_lock.take() is None: Err(NotConnected)
disconnect_none(t) ==
    /\ pc[t] = "d_lock"
    /\ Lock(t)
    /\ shared_conn = None
    /\ Unlock
    /\ Finish(t, Err("NotConnected"))
    /\ UNCHANGED <<aside, shared_conn, handles, opened, op, args, conn,
                   locals, driverOps, dropped, closedUse, raced>>

disconnect(t) ==
    \/ disconnect_call(t)
    \/ disconnect_some(t)
    \/ disconnect_none(t)

\* ------------------------------------------------------------------- write
write_call(t) ==
    /\ \E len \in DataLens : Call(t, "write", len, "w_lock")
    /\ UNCHANGED port_name

\* the driver's write: Ok(n) with n <= buf.len(), or Err(kind)
PortWrite(len) == {Ok(n) : n \in 0..len} \cup {Err(k) : k \in DriverErrorKinds}

\* mutant: the error of the driver is replaced by one of the write's own
WriteResult_wrapped(r) == IF r.kind = "Ok" THEN r ELSE Err("Other")

\* impl Write for SerialConnection: write is self.port.write(buf), and
\* api::write returns conn.write(data): the driver's result, untouched
WriteResult(r) == r

\* mutant: a failed attempt is followed by a second one, and a second
\* failure is wrapped
write_some_retry(t) ==
    /\ pc[t] = "w_lock"
    /\ Lock(t)
    /\ shared_conn # None
    /\ conn' = [conn EXCEPT ![t] = shared_conn]
    /\ \E r1 \in PortWrite(arg[t]) :
         IF r1.kind = "Ok"
           THEN Touch(t, shared_conn, 1) /\ Finish(t, r1)
           ELSE /\ Touch(t, shared_conn, 2)
                /\ \E r2 \in PortWrite(arg[t]) :
                     Finish(t, IF r2.kind = "Ok" THEN r2
                                                 ELSE Err("WriteFailed"))
    /\ Unlock
    /\ UNCHANGED <<aside, shared_conn, handles, opened, op, args, locals,
                   dropped>>

\* conn.write(data) is self.port.write(buf): one attempt, returned as it is
write_some(t) ==
    /\ pc[t] = "w_lock"
    /\ Lock(t)
    /\ shared_conn # None
    /\ conn' = [conn EXCEPT ![t] = shared_conn]
    /\ Touch(t, shared_conn, 1)
    /\ \E r \in PortWrite(arg[t]) :
         /\ port_wrote' = [port_wrote EXCEPT ![t] = r]
         /\ Finish(t, WriteResult(r))
    /\ Unlock
    /\ UNCHANGED <<aside, shared_conn, handles, opened, op, args, readLocals,
                   dropped>>

write_none(t) ==
    /\ pc[t] = "w_lock"
    /\ Lock(t)
    /\ shared_conn = None
    /\ Unlock
    /\ Finish(t, Err("NotConnected"))
    /\ UNCHANGED <<aside, shared_conn, handles, opened, op, args, conn,
                   locals, driverOps, dropped, closedUse, raced>>

write(t) ==
    \/ write_call(t)
    \/ write_some(t)
    \/ write_none(t)

\* -------------------------------------------------------------------- read
read_call(t) ==
    /\ \E tmo \in Timeouts : Call(t, "read", tmo, "r_lock")
    /\ UNCHANGED port_name

\* conn_lock.as_mut() is Some(conn): conn.read(..), start_time = Instant::now()
read_some(t) ==
    /\ pc[t] = "r_lock"
    /\ Lock(t)
    /\ shared_conn # None
    /\ conn_lock' = t
    /\ conn' = [conn EXCEPT ![t] = shared_conn]
    /\ elapsed' = [elapsed EXCEPT ![t] = 0]
    /\ pc' = [pc EXCEPT ![t] = "r_loop"]
    /\ UNCHANGED <<aside, port_wrote, shared_conn, handles, opened, op, args, polls,
                   sleeps, last_poll, since_call, driverOps, dropped, result,
                   closedUse, raced>>

\* mutant: without a connection the read runs into its timeout
read_none_timeout(t) ==
    /\ pc[t] = "r_lock"
    /\ Lock(t)
    /\ shared_conn = None
    /\ Unlock
    /\ Finish(t, Err("TimedOut"))
    /\ UNCHANGED <<aside, shared_conn, handles, opened, op, args, conn,
                   locals, driverOps, dropped, closedUse, raced>>

read_none(t) ==
    /\ pc[t] = "r_lock"
    /\ Lock(t)
    /\ shared_conn = None
    /\ Unlock
    /\ Finish(t, Err("NotConnected"))
    /\ UNCHANGED <<aside, shared_conn, handles, opened, op, args, conn,
                   locals, driverOps, dropped, closedUse, raced>>

\* SerialPort::timeout for SerialConnection: self.port.timeout()
timeout(h) == handles[h].timeout

\* the loop condition: start_time.elapsed() < self.timeout()
LoopCond(t) == elapsed[t] < timeout(conn[t])

\* one more iteration of the while loop, which meets `met`
InLoop(t, met) ==
    /\ pc[t] = "r_loop"
    /\ LoopCond(t)
    /\ polls' = [polls EXCEPT ![t] = @ + 1]
    /\ last_poll' = [last_poll EXCEPT ![t] = met]

\* mutant: a failed bytes_to_read counts as no bytes yet
read_avail_err_retry(t) ==
    /\ InLoop(t, "avail_err")
    /\ device = "any"
    /\ Touch(t, conn[t], 1)
    /\ pc' = [pc EXCEPT ![t] = "r_sleep"]
    /\ UNCHANGED <<aside, port_wrote, shared_conn, conn_lock, handles, opened, op, args,
                   conn, elapsed, sleeps, since_call, dropped, result>>

\* self.port.bytes_to_read() is Err(e)
read_avail_err(t) ==
    /\ InLoop(t, "avail_err")
    /\ device = "any"
    /\ Touch(t, conn[t], 1)
    /\ Unlock
    /\ Finish(t, Err("Other"))
    /\ UNCHANGED <<aside, port_wrote, shared_conn, handles, opened, op, args, conn,
                   elapsed, sleeps, since_call, dropped>>

\* self.port.bytes_to_read() is Ok(0): fall through to the sleep
read_avail_zero(t) ==
    /\ InLoop(t, "zero")
    /\ device \in {"any", "silent"}
    /\ Touch(t, conn[t], 1)
    /\ pc' = [pc EXCEPT ![t] = "r_sleep"]
    /\ UNCHANGED <<aside, port_wrote, shared_conn, conn_lock, handles, opened, op, args,
                   conn, elapsed, sleeps, since_call, dropped, result>>

\* bytes > 0 and self.port.read(buf) is Ok(bytes_read), bytes_read > 0
read_data(t) ==
    /\ InLoop(t, "data")
    /\ device \in {"any", "ready"}
    /\ Touch(t, conn[t], 2)
    /\ Unlock
    /\ \E n \in DataLens : Finish(t, Ok(n))
    /\ UNCHANGED <<aside, port_wrote, shared_conn, handles, opened, op, args, conn,
                   elapsed, sleeps, since_call, dropped>>

\* mutant: a read of no bytes is the end of the stream
read_empty_eof(t) ==
    /\ InLoop(t, "empty")
    /\ device = "any"
    /\ Touch(t, conn[t], 2)
    /\ Unlock
    /\ Finish(t, Ok(0))
    /\ UNCHANGED <<aside, port_wrote, shared_conn, handles, opened, op, args, conn,
                   elapsed, sleeps, since_call, dropped>>

\* bytes > 0 and self.port.read(buf) is Ok(0): fall through to the sleep
read_empty(t) ==
    /\ InLoop(t, "empty")
    /\ device = "any"
    /\ Touch(t, conn[t], 2)
    /\ pc' = [pc EXCEPT ![t] = "r_sleep"]
    /\ UNCHANGED <<aside, port_wrote, shared_conn, conn_lock, handles, opened, op, args,
                   conn, elapsed, sleeps, since_call, dropped, result>>

\* mutant: the guard is kept when the driver read fails
read_err_keeps_guard(t) ==
    /\ InLoop(t, "read_err")
    /\ device = "any"
    /\ Touch(t, conn[t], 2)
    /\ conn_lock' = t
    /\ Finish(t, Err("Other"))
    /\ UNCHANGED <<aside, port_wrote, shared_conn, handles, opened, op, args, conn,
                   elapsed, sleeps, since_call, dropped>>

\* bytes > 0 and self.port.read(buf) is Err(e)
read_err(t) ==
    /\ InLoop(t, "read_err")
    /\ device = "any"
    /\ Touch(t, conn[t], 2)
    /\ Unlock
    /\ Finish(t, Err("Other"))
    /\ UNCHANGED <<aside, port_wrote, shared_conn, handles, opened, op, args, conn,
                   elapsed, sleeps, since_call, dropped>>

\* since_call of u after one more poll interval: the time of every read that
\* has been called and has not returned goes on, up to SinceCallCap
Later(u) ==
    IF pc[u] \in {"r_lock", "r_loop", "r_sleep"} /\ since_call[u] < SinceCallCap
      THEN since_call[u] + READ_POLL_SLEEP_MS
      ELSE since_call[u]

\* thread::sleep(Duration::from_millis(READ_POLL_SLEEP_MS))
read_sleep(t) ==
    /\ pc[t] = "r_sleep"
    /\ elapsed' = [elapsed EXCEPT ![t] = @ + READ_POLL_SLEEP_MS]
    /\ sleeps' = [sleeps EXCEPT ![t] = @ + 1]
    /\ since_call' = [u \in Threads |-> Later(u)]
    /\ pc' = [pc EXCEPT ![t] = "r_loop"]
    /\ UNCHANGED <<aside, port_wrote, shared_conn, conn_lock, handles, opened, op, args,
                   conn, polls, last_poll, driverOps, dropped, result,
                   closedUse, raced>>

\* mutant: a read that times out gives the connection up
read_timeout_disconnects(t) ==
    /\ pc[t] = "r_loop"
    /\ ~LoopCond(t)
    /\ shared_conn' = None
    /\ Unlock
    /\ Finish(t, Err("TimedOut"))
    /\ UNCHANGED <<aside, handles, opened, op, args, conn, locals, driverOps,
                   dropped, closedUse, raced>>

\* the loop condition is false: read timeout elapsed
read_timeout(t) ==
    /\ pc[t] = "r_loop"
    /\ ~LoopCond(t)
    /\ Unlock
    /\ Finish(t, Err("TimedOut"))
    /\ UNCHANGED <<aside, shared_conn, handles, opened, op, args, conn,
                   locals, driverOps, dropped, closedUse, raced>>

read(t) ==
    \/ read_call(t)
    \/ read_some(t)
    \/ read_none(t)
    \/ read_avail_err(t)
    \/ read_avail_zero(t)
    \/ read_data(t)
    \/ read_empty(t)
    \/ read_err(t)
    \/ read_sleep(t)
    \/ read_timeout(t)

\* -------------------------------------------------------------------- list
list_call(t) == Call(t, "list", 0, "l_ports") /\ UNCHANGED port_name

\* mutant: list looks at the slot under the guard
list_ports_locked(t) ==
    /\ pc[t] = "l_ports"
    /\ Lock(t)
    /\ \/ \E n \in 0..Cardinality(Ports) : Finish(t, Ok(n))
       \/ \E k \in DriverErrorKinds : Finish(t, Err(k))
    /\ UNCHANGED <<aside, shared_conn, conn_lock, handles, opened, op, args,
                   conn, locals, driverOps, dropped, closedUse, raced>>

\* SerialConnection::list: serialport::available_ports()? (the number of
\* ports found, which may be none), with no lock and no look at the slot
list_ports(t) ==
    /\ pc[t] = "l_ports"
    /\ \/ \E n \in 0..Cardinality(Ports) : Finish(t, Ok(n))
       \/ \E k \in DriverErrorKinds : Finish(t, Err(k))
    /\ UNCHANGED <<aside, shared_conn, conn_lock, handles, opened, op, args,
                   conn, locals, driverOps, dropped, closedUse, raced>>

list(t) ==
    \/ list_call(t)
    \/ list_ports(t)

\* ------------------------------------------------------------------ caller
\* the caller takes the result; the locals of the call are gone
Return(t) ==
    /\ pc[t] = "done"
    /\ pc' = [pc EXCEPT ![t] = "idle"]
    /\ op' = [op EXCEPT ![t] = "none"]
    /\ arg' = [arg EXCEPT ![t] = 0]
    /\ port_name' = [port_name EXCEPT ![t] = ""]
    /\ conn' = [conn EXCEPT ![t] = None]
    /\ elapsed' = [elapsed EXCEPT ![t] = 0]
    /\ polls' = [polls EXCEPT ![t] = 0]
    /\ sleeps' = [sleeps EXCEPT ![t] = 0]
    /\ last_poll' = [last_poll EXCEPT ![t] = "none"]
    /\ since_call' = [since_call EXCEPT ![t] = 0]
    /\ driverOps' = [driverOps EXCEPT ![t] = 0]
    /\ dropped' = [dropped EXCEPT ![t] = "none"]
    /\ port_wrote' = [port_wrote EXCEPT ![t] = NoResult]
    /\ result' = [result EXCEPT ![t] = NoResult]
    /\ UNCHANGED <<aside, shared_conn, conn_lock, handles, opened,
                   closedUse, raced>>

Next ==
    \E t \in Threads :
        \/ connect(t)
        \/ disconnect(t)
        \/ write(t)
        \/ read(t)
        \/ list(t)
        \/ Return(t)

Spec == Init /\ [][Next]_vars

\* --------------------------------------------------------------- scheduling
\* the steps of t that take the mutex
Acquire(t) ==
    \/ connect_install(t)
    \/ disconnect_some(t)
    \/ disconnect_none(t)
    \/ write_some(t)
    \/ write_none(t)
    \/ read_some(t)
    \/ read_none(t)

\* the steps of a call of t that has the mutex or needs none
Run(t) ==
    \/ connect_open_ok(t)
    \/ connect_open_err(t)
    \/ connect_flush_ok(t)
    \/ connect_flush_err(t)
    \/ read_avail_err(t)
    \/ read_avail_zero(t)
    \/ read_data(t)
    \/ read_empty(t)
    \/ read_err(t)
    \/ read_sleep(t)
    \/ read_timeout(t)
    \/ list_ports(t)

\* every thread that can run does run, and a thread that finds the mutex free
\* again and again gets it; nothing makes a caller call or take its result
FairSpec ==
    /\ Spec
    /\ \A t \in Threads : WF_pc(Run(t)) /\ SF_pc(Acquire(t))

\* ------------------------------------------------------------------ panics
\* positions at which a call is about to take the mutex
LockWaits == {"c_lock", "d_lock", "w_lock", "r_lock"}

\* the thread unwinds: it returns nothing and runs no further call
Panic(t, payload) ==
    /\ pc' = [pc EXCEPT ![t] = "dead"]
    /\ result' = [result EXCEPT ![t] = Err(payload)]

\* a driver call of the read panics; the MutexGuard is dropped while the
\* thread is panicking, which releases the mutex and poisons it
read_panic(t) ==
    /\ pc[t] \in {"r_loop", "r_sleep"}
    /\ conn_lock = t
    /\ Panic(t, "DriverPanic")
    /\ conn_lock' = None
    /\ poisoned' = TRUE
    /\ UNCHANGED <<device, jsonVars, openVars, shared_conn, handles, opened,
                   op, args, conn, locals, driverOps, dropped, closedUse,
                   raced>>

\* lock() on a poisoned mutex is Err(PoisonError) and unwrap() panics; the
\* guard inside the error is dropped, and so is the `conn` a connect opened
lock_poisoned(t) ==
    /\ pc[t] \in LockWaits
    /\ conn_lock = None
    /\ poisoned
    /\ Panic(t, "PoisonError")
    /\ IF pc[t] = "c_lock"
         THEN Drop(t, conn[t])
         ELSE UNCHANGED <<handles, dropped>>
    /\ UNCHANGED <<aside, shared_conn, conn_lock, opened, op, args, conn,
                   locals, driverOps, closedUse, raced>>

NextPanic ==
    \E t \in Threads :
        \/ connect(t)
        \/ disconnect(t)
        \/ write(t)
        \/ read(t)
        \/ list(t)
        \/ Return(t)
        \/ read_panic(t)
        \/ lock_poisoned(t)

\* the shared connection when a driver call may panic
SpecPanic == Init /\ [][NextPanic]_vars

\* ------------------------------------------- SerialPortInfo and its JSON
\* serial_types.rs: the derived Serialize / Deserialize of serde, with
\* serde_json.  A JSON text is a sequence of tokens; a string token carries
\* the characters between its quotes (escapes not yet resolved), a number
\* token its decimal digits.  Not modelled: white space, and the array form
\* and the {"Variant": null} form that the derived Deserialize also accepts.
\* speed is a u32, scaled down to SpeedBits bits.
DataBits == {"Five", "Six", "Seven", "Eight"}
Parity == {"None", "Odd", "Even"}
StopBits == {"One", "Two"}
FlowControl == {"None", "Software", "Hardware"}

MaxSpeed == 2^SpeedBits - 1
Speeds == {0, 2^(SpeedBits - 1), MaxSpeed}
\* characters of a name: a plain one and the two that JSON must escape
NameChars == {"a", "\"", "\\"}
Names == UNION {[1..n -> NameChars] : n \in 0..MaxNameLen}

\* SerialPortInfo::new
new(name, speed, data_bits, parity, stop_bits, flow_control) ==
    [name |-> name, speed |-> speed, data_bits |-> data_bits,
     parity |-> parity, stop_bits |-> stop_bits,
     flow_control |-> flow_control]

SerialPortInfo ==
    {new(n, s, d, p, b, f) : n \in Names, s \in Speeds, d \in DataBits,
                             p \in Parity, b \in StopBits, f \in FlowControl}

Tok(k, s) == [k |-> k, s |-> s]
LB == Tok("{", <<>>)
RB == Tok("}", <<>>)
Colon == Tok(":", <<>>)
Comma == Tok(",", <<>>)
Str(s) == Tok("str", s)
Num(s) == Tok("num", s)

\* the field names, as serde writes them
K_name == <<"n", "a", "m", "e">>
K_speed == <<"s", "p", "e", "e", "d">>
K_data_bits == <<"d", "a", "t", "a", "_", "b", "i", "t", "s">>
K_parity == <<"p", "a", "r", "i", "t", "y">>
K_stop_bits == <<"s", "t", "o", "p", "_", "b", "i", "t", "s">>
K_flow_control == <<"f", "l", "o", "w", "_", "c", "o", "n", "t", "r", "o", "l">>
Fields == {K_name, K_speed, K_data_bits, K_parity, K_stop_bits,
           K_flow_control}

\* a unit variant is written as the string of its name
VariantText ==
    [Five |-> <<"F", "i", "v", "e">>, Six |-> <<"S", "i", "x">>,
     Seven |-> <<"S", "e", "v", "e", "n">>,
     Eight |-> <<"E", "i", "g", "h", "t">>,
     None |-> <<"N", "o", "n", "e">>, Odd |-> <<"O", "d", "d">>,
     Even |-> <<"E", "v", "e", "n">>, One |-> <<"O", "n", "e">>,
     Two |-> <<"T", "w", "o">>,
     Software |-> <<"S", "o", "f", "t", "w", "a", "r", "e">>,
     Hardware |-> <<"H", "a", "r", "d", "w", "a", "r", "e">>]

DigitChars == <<"0", "1", "2", "3", "4", "5", "6", "7", "8", "9">>

\* the decimal digits of n
RECURSIVE Dec(_)
Dec(n) ==
    IF n < 10 THEN <<DigitChars[n + 1]>>
    ELSE Dec(n \div 10) \o <<DigitChars[(n % 10) + 1]>>

\* enum DataBits { Five = 5, Six = 6, Seven = 7, Eight = 8 }
Discriminant == [Five |-> 5, Six |-> 6, Seven |-> 7, Eight |-> 8]

\* mutant: DataBits is written as its discriminant
DataBitsText_discriminant(d) == Dec(Discriminant[d])

\* #[derive(Serialize)] enum DataBits: the variant's name
DataBitsText(d) == VariantText[d]

\* serde_json writes " as \" and \ as \\
RECURSIVE Escape(_)
Escape(s) ==
    IF s = <<>> THEN <<>>
    ELSE (IF Head(s) \in {"\"", "\\"} THEN <<"\\", Head(s)>> ELSE <<Head(s)>>)
         \o Escape(Tail(s))

Member(key, v) == <<Str(Escape(key)), Colon, v>>

\* serde_json::to_string(&self): the fields in the order of the struct
to_json(d) ==
    Some(<<LB>> \o Member(K_name, Str(Escape(d.name)))
         \o <<Comma>> \o Member(K_speed, Num(Dec(d.speed)))
         \o <<Comma>> \o Member(K_data_bits, Str(DataBitsText(d.data_bits)))
         \o <<Comma>> \o Member(K_parity, Str(VariantText[d.parity]))
         \o <<Comma>> \o Member(K_stop_bits, Str(VariantText[d.stop_bits]))
         \o <<Comma>>
         \o Member(K_flow_control, Str(VariantText[d.flow_control]))
         \o <<RB>>)

\* the characters of a string token resolve: every \ is followed by " or \,
\* and no " stands alone
RECURSIVE ValidEsc(_)
ValidEsc(s) ==
    IF s = <<>> THEN TRUE
    ELSE IF Head(s) = "\\"
           THEN /\ Len(s) >= 2
                /\ s[2] \in {"\"", "\\"}
                /\ ValidEsc(Tail(Tail(s)))
    ELSE Head(s) # "\"" /\ ValidEsc(Tail(s))

RECURSIVE Unescape(_)
Unescape(s) ==
    IF s = <<>> THEN <<>>
    ELSE IF Head(s) = "\\" /\ Len(s) >= 2
           THEN <<s[2]>> \o Unescape(Tail(Tail(s)))
    ELSE <<Head(s)>> \o Unescape(Tail(s))

\* a JSON number without sign, fraction or exponent: no leading zero
IsDigits(s) ==
    /\ Len(s) >= 1
    /\ \A i \in 1..Len(s) : \E j \in 1..10 : DigitChars[j] = s[i]
    /\ Len(s) > 1 => s[1] # "0"

RECURSIVE ValOf(_)
ValOf(s) ==
    IF s = <<>> THEN 0
    ELSE 10 * ValOf(SubSeq(s, 1, Len(s) - 1))
         + (CHOOSE j \in 0..9 : DigitChars[j + 1] = s[Len(s)])

NoMembers == [ok |-> FALSE, ms |-> <<>>]

\* key : value { , key : value }
RECURSIVE ParseMembers(_)
ParseMembers(b) ==
    IF \/ Len(b) < 3
       \/ b[1].k # "str" \/ b[2].k # ":" \/ b[3].k \notin {"str", "num"}
      THEN NoMembers
    ELSE IF Len(b) = 3
      THEN [ok |-> TRUE, ms |-> <<[key |-> b[1].s, val |-> b[3]]>>]
    ELSE IF b[4].k # ","
      THEN NoMembers
    ELSE LET r == ParseMembers(SubSeq(b, 5, Len(b)))
         IN  [ok |-> r.ok, ms |-> <<[key |-> b[1].s, val |-> b[3]]>> \o r.ms]

\* { members } and nothing after it
ParseObject(t) ==
    IF Len(t) < 2 \/ t[1].k # "{" \/ t[Len(t)].k # "}"
      THEN NoMembers
    ELSE IF Len(t) = 2
      THEN [ok |-> TRUE, ms |-> <<>>]
    ELSE ParseMembers(SubSeq(t, 2, Len(t) - 1))

\* serde_json::from_str::<SerialPortInfo>(&json): Err(e) is printed and
\* becomes None.  Unknown fields are skipped; a missing or repeated field, a
\* value of the wrong type, an unknown variant and a speed above u32::MAX
\* are errors.
from_json(text) ==
    LET p == ParseObject(text)
        ms == p.ms
        wellFormed ==
            /\ p.ok
            /\ \A i \in 1..Len(ms) :
                 /\ ValidEsc(ms[i].key)
                 /\ ms[i].val.k = "str" => ValidEsc(ms[i].val.s)
                 /\ ms[i].val.k = "num" => IsDigits(ms[i].val.s)
        At(f) == {i \in 1..Len(ms) : Unescape(ms[i].key) = f}
        V(f) == ms[CHOOSE i \in At(f) : TRUE].val
        Variant(f, S) ==
            {x \in S : V(f).k = "str" /\ VariantText[x] = Unescape(V(f).s)}
    IN  IF ~wellFormed THEN Absent
        ELSE IF \E f \in Fields : Cardinality(At(f)) # 1 THEN Absent
        ELSE IF \/ V(K_name).k # "str"
                \/ V(K_speed).k # "num"
                \/ ValOf(V(K_speed).s) > MaxSpeed
                \/ Variant(K_data_bits, DataBits) = {}
                \/ Variant(K_parity, Parity) = {}
                \/ Variant(K_stop_bits, StopBits) = {}
                \/ Variant(K_flow_control, FlowControl) = {}
          THEN Absent
        ELSE Some(new(Unescape(V(K_name).s),
                      ValOf(V(K_speed).s),
                      CHOOSE x \in Variant(K_data_bits, DataBits) : TRUE,
                      CHOOSE x \in Variant(K_parity, Parity) : TRUE,
                      CHOOSE x \in Variant(K_stop_bits, StopBits) : TRUE,
                      CHOOSE x \in Variant(K_flow_control, FlowControl) :
                          TRUE))

\* texts that are not the JSON of a SerialPortInfo, made from one that is
Delete(t, i) == SubSeq(t, 1, i - 1) \o SubSeq(t, i + 1, Len(t))
ValueAt(t) == {i \in 2..Len(t) : t[i - 1].k = ":"}
Malformed(t) ==
    \* a token is missing
    {Delete(t, i) : i \in 1..Len(t)}
    \* a value has the wrong type
    \cup {[t EXCEPT ![i] = IF t[i].k = "str" THEN Num(<<"1">>)
                                              ELSE Str(<<"a">>)] :
             i \in ValueAt(t)}
    \* a string ends in the middle of an escape
    \cup {[t EXCEPT ![i].s = @ \o <<"\\">>] :
             i \in {j \in 1..Len(t) : t[j].k = "str"}}
    \* an enum has an unknown variant
    \cup {[t EXCEPT ![i] = Str(<<"a">>)] :
             i \in {j \in ValueAt(t) : j > 4 /\ t[j].k = "str"}}
    \* the speed does not fit, or has a leading zero
    \cup {[t EXCEPT ![i] = Num(Dec(MaxSpeed + 1))] :
             i \in {j \in ValueAt(t) : t[j].k = "num"}}
    \cup {[t EXCEPT ![i].s = <<"0">> \o @] :
             i \in {j \in ValueAt(t) : t[j].k = "num"}}
    \* the first field is repeated, the last field is missing
    \cup {SubSeq(t, 1, Len(t) - 1) \o <<Comma>> \o SubSeq(t, 2, 4) \o <<RB>>,
          SubSeq(t, 1, Len(t) - 5) \o <<RB>>}
    \* something follows the object, or there is no object
    \cup {t \o <<Comma>>, t \o <<Str(<<"a">>)>>, <<>>, <<LB>>, <<LB, RB>>}

\* a caller has built a descriptor
InitJson ==
    /\ ConnIdle
    /\ OpenIdle
    /\ info \in {Some(d) : d \in SerialPortInfo}
    /\ json = Absent
    /\ parsed = Absent
    /\ jpc = "new"
    /\ garbled = FALSE

\* let text = info.to_json()
Encode ==
    /\ jpc = "new"
    /\ json' = to_json(info.v)
    /\ jpc' = "encoded"
    /\ UNCHANGED <<connVars, openVars, info, parsed, garbled>>

\* the text is damaged before it is read back
Garble ==
    /\ jpc = "encoded"
    /\ json.some
    /\ ~garbled
    /\ \E t \in Malformed(json.v) : json' = Some(t)
    /\ garbled' = TRUE
    /\ UNCHANGED <<connVars, openVars, info, parsed, jpc>>

\* SerialPortInfo::from_json(text)
Decode ==
    /\ jpc = "encoded"
    /\ json.some
    /\ parsed' = from_json(json.v)
    /\ jpc' = "decoded"
    /\ UNCHANGED <<connVars, openVars, info, json, garbled>>

NextJson == Encode \/ Garble \/ Decode

\* a descriptor is written as JSON and read back
SpecJson == InitJson /\ [][NextJson]_vars

\* --------------------------------------------------------- open_serial_port
\* src/src/api/serial.rs: open the port, flush, write the request, flush,
\* then poll for the response until max_wait_time.  `port` is a local: it is
\* dropped, and so closed, wherever the function returns.  device says what
\* the poll loop meets, as for read.
OspFrame == UNCHANGED <<connVars, jsonVars, osp_runs, osp_errs>>

\* the function returns r; the local `port`, if it was opened, is dropped
OspReturn(r, met) ==
    /\ osp_result' = r
    /\ osp_met' = met
    /\ port_held' = FALSE
    /\ osp_pc' = "done"
    /\ UNCHANGED osp_elapsed
    /\ OspFrame

\* a driver call succeeded: on to the next statement
OspGo(from, to) ==
    /\ osp_pc = from
    /\ osp_pc' = to
    /\ UNCHANGED <<port_held, osp_elapsed, osp_met, osp_result>>
    /\ OspFrame

\* for i in 0..ITERATIONS { open_serial_port(&port.port_name, baud_rate) }
osp_call ==
    /\ osp_pc = "idle"
    /\ osp_runs < ITERATIONS
    /\ osp_pc' = "o_open"
    /\ UNCHANGED <<port_held, osp_elapsed, osp_met, osp_result>>
    /\ OspFrame

\* serialport::new(..).timeout(..).open()? on a port nobody holds
osp_open_ok ==
    /\ osp_pc = "o_open"
    /\ ~port_held
    /\ port_held' = TRUE
    /\ osp_pc' = "o_flush"
    /\ UNCHANGED <<osp_elapsed, osp_met, osp_result>>
    /\ OspFrame

\* open()? is Err: nothing was opened by this invocation
osp_open_err ==
    /\ osp_pc = "o_open"
    /\ \E k \in DriverErrorKinds : osp_result' = Err(k)
    /\ osp_met' = "open_err"
    /\ osp_pc' = "done"
    /\ UNCHANGED <<port_held, osp_elapsed>>
    /\ OspFrame

\* port.flush()?
osp_flush_ok ==
    /\ osp_pc = "o_flush"
    /\ OspGo("o_flush", "o_write")

osp_flush_err ==
    /\ osp_pc = "o_flush"
    /\ \E k \in DriverErrorKinds : OspReturn(Err(k), "flush_err")

\* port.write_all(output)?
osp_write_ok ==
    /\ osp_pc = "o_write"
    /\ OspGo("o_write", "o_flush2")

osp_write_err ==
    /\ osp_pc = "o_write"
    /\ \E k \in DriverErrorKinds : OspReturn(Err(k), "write_err")

\* port.flush()?, then start_time = Instant::now()
osp_flush2_ok ==
    /\ osp_pc = "o_flush2"
    /\ osp_pc' = "o_loop"
    /\ osp_elapsed' = 0
    /\ UNCHANGED <<port_held, osp_met, osp_result>>
    /\ OspFrame

osp_flush2_err ==
    /\ osp_pc = "o_flush2"
    /\ \E k \in DriverErrorKinds : OspReturn(Err(k), "flush2_err")

\* while start_time.elapsed() < max_wait_time
OspInLoop == osp_pc = "o_loop" /\ osp_elapsed < MAX_WAIT_TIME_MS

\* the iteration goes on to the sleep
OspToSleep(met) ==
    /\ osp_met' = met
    /\ osp_pc' = "o_sleep"
    /\ UNCHANGED <<port_held, osp_elapsed, osp_result>>
    /\ OspFrame

\* port.bytes_to_read()? is Err
osp_avail_err ==
    /\ OspInLoop
    /\ device = "any"
    /\ \E k \in DriverErrorKinds : OspReturn(Err(k), "avail_err")

\* port.bytes_to_read()? is 0
osp_avail_zero ==
    /\ OspInLoop
    /\ device \in {"any", "silent"}
    /\ OspToSleep("zero")

\* port.read(..)? is Err
osp_read_err ==
    /\ OspInLoop
    /\ device = "any"
    /\ \E k \in DriverErrorKinds : OspReturn(Err(k), "read_err")

\* port.read(..)? is 0
osp_read_empty ==
    /\ OspInLoop
    /\ device = "any"
    /\ OspToSleep("empty")

\* the data does not contain "read uptime request": it is printed
osp_unexpected ==
    /\ OspInLoop
    /\ device \in {"any", "ready"}
    /\ OspToSleep("unexpected")

\* the data contains "read uptime request": return Ok(())
osp_expected ==
    /\ OspInLoop
    /\ device \in {"any", "ready"}
    /\ OspReturn(Ok(0), "expected")

\* std::thread::sleep(Duration::from_millis(100))
osp_sleep ==
    /\ osp_pc = "o_sleep"
    /\ osp_elapsed' = osp_elapsed + OSP_SLEEP_MS
    /\ osp_pc' = "o_loop"
    /\ UNCHANGED <<port_held, osp_met, osp_result>>
    /\ OspFrame

\* mutant: at the deadline the port is kept open
osp_deadline_keeps_port ==
    /\ osp_pc = "o_loop"
    /\ osp_elapsed >= MAX_WAIT_TIME_MS
    /\ osp_result' = Ok(0)
    /\ osp_pc' = "done"
    /\ UNCHANGED <<port_held, osp_elapsed, osp_met>>
    /\ OspFrame

\* the loop condition is false: "Data not received ..", Ok(())
osp_deadline ==
    /\ osp_pc = "o_loop"
    /\ osp_elapsed >= MAX_WAIT_TIME_MS
    /\ OspReturn(Ok(0), osp_met)

\* the caller has the result
osp_return ==
    /\ osp_pc = "done"
    /\ osp_pc' = "idle"
    /\ osp_runs' = osp_runs + 1
    /\ osp_errs' = IF osp_result.kind = "Ok" THEN osp_errs ELSE osp_errs + 1
    /\ osp_elapsed' = 0
    /\ osp_met' = "none"
    /\ osp_result' = NoResult
    /\ UNCHANGED <<connVars, jsonVars, port_held>>

InitOpen == ConnIdle /\ JsonIdle /\ OpenIdle

NextOpen ==
    \/ osp_call
    \/ osp_open_ok
    \/ osp_open_err
    \/ osp_flush_ok
    \/ osp_flush_err
    \/ osp_write_ok
    \/ osp_write_err
    \/ osp_flush2_ok
    \/ osp_flush2_err
    \/ osp_avail_err
    \/ osp_avail_zero
    \/ osp_read_err
    \/ osp_read_empty
    \/ osp_unexpected
    \/ osp_expected
    \/ osp_sleep
    \/ osp_deadline
    \/ osp_return

\* open_serial_port called again and again by one caller
SpecOpen == InitOpen /\ [][NextOpen]_vars

\* ================================================================== claims
Returned(t, o) == pc[t] = "done" /\ op[t] = o

\* the call of thread t ends with this step
Ends(t) == pc[t] # "done" /\ pc'[t] = "done"

\* maxRetries values of the specification's write(data, maxRetries)
RetryCounts == {0, 1, 2}

\* C1: a connect whose open and flush succeeded and that finds the slot
\* occupied fails with AlreadyConnected and leaves the slot's handle in place
\* and open.
C1_ConnectWhileConnectedFails ==
    [][\A t \in Threads :
         (pc[t] = "c_lock" /\ Ends(t) /\ shared_conn # None)
           => /\ result'[t].kind = "AlreadyConnected"
              /\ shared_conn' = shared_conn
              /\ handles'[shared_conn].state = "open"]_vars

\* C2: at most one handle is open at any time, counting the slot's handle and
\* the handle of a connect that has not returned.
C2_AtMostOneOpenHandle == Cardinality(OpenHandles) <= 1

\* C3: a call that is between its first and its last driver operation holds
\* the guard.
C3_GuardHeldAcrossDriverOps ==
    \A t \in Threads :
        pc[t] \in {"c_flush", "r_loop", "r_sleep"} => conn_lock = t

\* C4: no driver call is issued on a closed handle, a read in progress works
\* on an open handle, and no two calls use the same handle at the same time.
C4_NoUseAfterCloseNoSharing ==
    /\ ~closedUse
    /\ ~raced
    /\ \A t \in Threads : pc[t] \in {"r_loop", "r_sleep"} => IsOpen(conn[t])
    /\ \A t, u \in Threads :
         (t # u /\ pc[t] \in UsingHandle /\ pc[u] \in UsingHandle)
           => conn[t] # conn[u]

\* a read returned data from a handle that another caller has since closed
C4_Witness ==
    \E t, u \in Threads :
        /\ t # u
        /\ Returned(t, "read") /\ result[t].kind = "Ok"
        /\ Returned(u, "disconnect") /\ result[u].kind = "Ok"
        /\ conn[u] = conn[t]
        /\ handles[conn[t]].state = "closed"

C6_TimedOutWithinTAndPoll ==
    \A t \in Threads :
        (Returned(t, "read") /\ conn[t] # None /\ device = "silent")
          => /\ result[t].kind = "TimedOut"
             /\ arg[t] <= elapsed[t]
             /\ elapsed[t] <= arg[t] + READ_POLL_SLEEP_MS

\* C7, for the timeouts T > 0 (with T = 0 the loop is not meant to poll): a
\* read on a connected slot whose device has bytes at the first poll and
\* delivers at least one returns that count from a single driver read without
\* sleeping.
C7_ReadyDeviceReturnsAtOnce ==
    \A t \in Threads :
        (/\ Returned(t, "read") /\ conn[t] # None
         /\ device = "ready" /\ arg[t] > 0)
          => /\ result[t].kind = "Ok"
             /\ result[t].n >= 1
             /\ polls[t] = 1
             /\ sleeps[t] = 0
             /\ elapsed[t] = 0

C10_FailedConnectLeavesNothing ==
    [][\A t \in Threads :
         (pc[t] \in {"c_open", "c_flush"} /\ Ends(t))
           => /\ result'[t].kind \in DriverErrorKinds
              /\ shared_conn' = shared_conn
              /\ OpenHandles' \subseteq OpenHandles
              /\ pc[t] = "c_flush" => handles'[conn[t]].state = "closed"]_vars

\* a connect on an empty slot failed in the flush; its handle is closed
C10_Witness ==
    \E t \in Threads :
        /\ Returned(t, "connect") /\ result[t].kind \in DriverErrorKinds
        /\ conn[t] # None
        /\ handles[conn[t]].state = "closed"
        /\ shared_conn = None
        /\ OpenHandles = {}

\* C11: no step of a read or a write changes the slot or any handle, so the
\* slot stays connected with the same open connection through reads and
\* writes, whatever they return; the slot goes from empty to occupied only by
\* a connect and from occupied to empty only by a disconnect.
C11_ReadWriteKeepSlot ==
    [][/\ \A t \in Threads :
            (op'[t] \in {"read", "write"} /\ pc'[t] # pc[t])
              => shared_conn' = shared_conn /\ handles' = handles
       /\ (shared_conn = None /\ shared_conn' # None)
            => \E t \in Threads :
                   /\ op[t] = "connect" /\ Ends(t)
                   /\ result'[t].kind = "Ok" /\ shared_conn' = conn[t]
       /\ (shared_conn # None /\ shared_conn' = None)
            => \E t \in Threads :
                   /\ op[t] = "disconnect" /\ Ends(t)
                   /\ result'[t].kind = "Ok"]_vars

\* a read timed out and a write failed on the connection that is still in the
\* slot, open
C11_Witness ==
    \E t, u \in Threads :
        /\ Returned(t, "read") /\ result[t].kind = "TimedOut"
        /\ Returned(u, "write") /\ result[u].kind \in DriverErrorKinds
        /\ conn[t] = shared_conn /\ conn[u] = shared_conn
        /\ IsOpen(shared_conn)

\* C12: a call that comes to take the guard while it is poisoned returns an
\* error result (LockFailure): its thread is not aborted, and the call does
\* not go on as if it had the guard, so the slot and the handles stay as they
\* are.
C12_PoisonedLockReportsError ==
    [][\A t \in Threads :
         (pc[t] \in LockWaits /\ poisoned /\ pc'[t] # pc[t])
           => /\ pc'[t] = "done"
              /\ result'[t].kind = "LockFailure"
              /\ shared_conn' = shared_conn]_vars

\* C13: to_json of a descriptor yields a text; from_json of that text yields
\* the descriptor, equal in every field; from_json of a malformed text yields
\* None.
C13_JsonRoundTrip ==
    /\ jpc \in {"encoded", "decoded"} => json.some
    /\ (jpc = "decoded" /\ ~garbled)
         => /\ parsed.some
            /\ \A f \in {"name", "speed", "data_bits", "parity", "stop_bits",
                         "flow_control"} : parsed.v[f] = info.v[f]
    /\ (jpc = "decoded" /\ garbled) => parsed = Absent

\* a descriptor whose name needs escaping and whose speed is the largest
\* came back from its JSON
C13_Witness ==
    /\ jpc = "decoded" /\ ~garbled
    /\ parsed = info
    /\ info.v.name = <<"\"">>
    /\ info.v.speed = MaxSpeed
    /\ info.v.data_bits = "Seven"

\* C14: no step of a list changes the slot, the guard or a handle, and a list
\* that has been called can return its result in every state, also while
\* another caller's read holds the guard.
C14_ListIsPureQuery ==
    /\ [](\A t \in Threads : pc[t] = "l_ports" => ENABLED list_ports(t))
    /\ [][\A t \in Threads :
            (op'[t] = "list" /\ pc'[t] # pc[t])
              => /\ shared_conn' = shared_conn
                 /\ conn_lock' = conn_lock
                 /\ handles' = handles]_vars

\* a list has returned while another caller's read is sleeping with the guard
C14_Witness ==
    \E t, u \in Threads :
        /\ Returned(t, "list")
        /\ pc[u] = "r_sleep" /\ conn_lock = u
        /\ sleeps[u] = 1

\* C15, for the reads whose handle is configured with the timeout T that the
\* caller passes (for the others see C6): a read on a connected slot whose
\* device never reports bytes returns TimedOut no later than T + one poll
\* interval after it was called, also when another caller held the guard at
\* the time of the call.
C15_ClockStartsAtCall ==
    [][\A t \in Threads :
         (/\ pc[t] = "r_loop" /\ Ends(t)
          /\ device = "silent"
          /\ timeout(conn[t]) = arg[t])
           => /\ result'[t].kind = "TimedOut"
              /\ since_call[t] <= arg[t] + READ_POLL_SLEEP_MS]_vars

\* a loop iteration of the read of t has been run by this step
Polled(t) == polls'[t] # polls[t]

\* C16: a loop iteration in which the driver read delivers no byte does not
\* end the read: the read sleeps one poll interval with the guard held and,
\* if its timeout has not elapsed, polls again; a read that returns a byte
\* count returns at least 1, taken from a driver read that delivered bytes.
C16_ZeroByteReadPollsAgain ==
    [][\A t \in Threads :
         /\ (Polled(t) /\ last_poll'[t] = "empty")
              => /\ pc'[t] = "r_sleep"
                 /\ conn_lock' = t
                 /\ result'[t] = NoResult
         /\ (pc[t] = "r_sleep" /\ last_poll[t] = "empty" /\ pc'[t] # pc[t])
              => /\ pc'[t] = "r_loop"
                 /\ elapsed'[t] = elapsed[t] + READ_POLL_SLEEP_MS
         /\ (/\ pc[t] = "r_loop" /\ last_poll[t] = "empty"
             /\ LoopCond(t) /\ pc'[t] # pc[t])
              => Polled(t)
         /\ (op[t] = "read" /\ Ends(t) /\ result'[t].kind = "Ok")
              => /\ result'[t].n >= 1
                 /\ last_poll'[t] = "data"]_vars

\* a read got no byte from the driver read of its first iteration and a byte
\* count from that of its second
C16_Witness ==
    \E t \in Threads :
        /\ Returned(t, "read") /\ result[t].kind = "Ok" /\ result[t].n >= 1
        /\ polls[t] = 2 /\ sleeps[t] = 1
        /\ driverOps[t] = 4
        /\ last_poll[t] = "data"

\* C17: a loop iteration that finds no bytes available goes to the sleep and
\* the read goes on; an iteration in which bytes_to_read or the driver read
\* fails ends the read in the same step, without a sleep, with an error that
\* is not TimedOut; a read that returns TimedOut has met no failure.
C17_FailureIsNotTimeout ==
    [][\A t \in Threads :
         /\ (Polled(t) /\ last_poll'[t] = "zero")
              => pc'[t] = "r_sleep" /\ result'[t] = NoResult
         /\ (Polled(t) /\ last_poll'[t] \in {"avail_err", "read_err"})
              => /\ pc'[t] = "done"
                 /\ result'[t].kind \notin {"Ok", "TimedOut", "None"}
                 /\ sleeps'[t] = sleeps[t]
                 /\ conn_lock' = None
         /\ (op[t] = "read" /\ Ends(t) /\ result'[t].kind = "TimedOut")
              => last_poll'[t] \in {"none", "zero", "empty"}]_vars

\* a read found no bytes, slept, polled again and ended with the failure of
\* its driver read
C17_Witness ==
    \E t \in Threads :
        /\ Returned(t, "read") /\ result[t].kind = "Other"
        /\ last_poll[t] = "read_err"
        /\ polls[t] = 2 /\ sleeps[t] = 1
        /\ driverOps[t] = 3

\* C18: a read on a connected slot has run at most T / poll interval + 1 loop
\* iterations, where T (arg) is the timeout of the read, and when it has
\* returned it has returned a byte count, an error or TimedOut.
C18_PollsBoundedByTimeout ==
    \A t \in Threads :
        (op[t] = "read" /\ conn[t] # None)
          => /\ polls[t] <= (arg[t] \div READ_POLL_SLEEP_MS) + 1
             /\ pc[t] = "done" => result[t].kind \in {"Ok", "Other", "TimedOut"}

\* what holds of the loop as it is: the iterations are bounded by the timeout
\* of the handle, every iteration but the last is followed by one sleep, and
\* under FairSpec every read that has the guard returns
C18_PollsBoundedByHandleTimeout ==
    \A t \in Threads :
        pc[t] \in {"r_loop", "r_sleep"}
          => /\ polls[t] <= (timeout(conn[t]) \div READ_POLL_SLEEP_MS) + 1
             /\ elapsed[t] = sleeps[t] * READ_POLL_SLEEP_MS
             /\ sleeps[t] \in {polls[t] - 1, polls[t]}

C18_ReadReturns ==
    \A t \in Threads : (pc[t] \in {"r_loop", "r_sleep"}) ~> (pc[t] = "done")

C20_HandlesReleasedOnce ==
    /\ \A h \in Handles :
         /\ handles[h].closes <= 1
         /\ handles[h].state = "closed" <=> handles[h].closes = 1
         /\ h <= opened <=> handles[h].state # "unopened"
    /\ \A h \in OpenHandles :
         \/ shared_conn = h
         \/ \E t \in Threads : pc[t] \in {"c_flush", "c_lock"} /\ conn[t] = h
    /\ (/\ shared_conn = None
        /\ \A t \in Threads : pc[t] \notin {"c_open", "c_flush", "c_lock"})
         => \A h \in 1..opened : handles[h].state = "closed"

\* two handles were opened; one was closed when a connect replaced it in the
\* slot, the other by a disconnect; the slot is empty
C20_Witness ==
    /\ shared_conn = None
    /\ opened = MaxHandles
    /\ \A h \in Handles : handles[h].state = "closed" /\ handles[h].closes = 1
    /\ \E t, u \in Threads :
         /\ Returned(t, "disconnect") /\ result[t].kind = "Ok"
         /\ Returned(u, "connect") /\ result[u].kind = "Ok"
         /\ dropped[u] # "none"
         /\ conn[t] = conn[u]

\* C21: a handle is flushed only while it is open, the handle a connect puts
\* into the slot is open and flushed, and every driver call of a read or a
\* write is issued on a handle that is open and was flushed.
C21_FlushBeforeUse ==
    [][/\ \A h \in Handles :
            (handles'[h].flushed /\ ~handles[h].flushed)
              => handles[h].state = "open"
       /\ (shared_conn' # shared_conn /\ shared_conn' # None)
            => /\ handles'[shared_conn'].state = "open"
               /\ handles'[shared_conn'].flushed
       /\ \A t \in Threads :
            (op'[t] \in {"read", "write"} /\ driverOps'[t] > driverOps[t])
              => /\ handles[conn'[t]].state = "open"
                 /\ handles[conn'[t]].flushed]_vars

\* a write and a read have been served by the handle in the slot, which was
\* opened and then flushed by a connect
C21_Witness ==
    \E t, u \in Threads :
        /\ Returned(t, "write") /\ result[t].kind = "Ok"
        /\ Returned(u, "read") /\ result[u].kind = "Ok"
        /\ conn[t] = shared_conn /\ conn[u] = shared_conn
        /\ handles[shared_conn].state = "open"
        /\ handles[shared_conn].flushed

\* C22: a write on a connected slot issues one driver write and returns what
\* that driver write returned: its byte count, which is at most the length
\* of the data and may be less, or its error, of the same kind.
C22_WriteReturnsDriverResult ==
    [][\A t \in Threads :
         (pc[t] = "w_lock" /\ Ends(t) /\ shared_conn # None)
           => /\ port_wrote'[t] \in PortWrite(arg[t])
              /\ result'[t] = port_wrote'[t]
              /\ result'[t].kind = "Ok" => result'[t].n <= arg[t]
              /\ driverOps'[t] = 1]_vars

\* a write of more than one byte returned 1, the count its one driver write
\* reported
C22_Witness ==
    \E t \in Threads :
        /\ Returned(t, "write")
        /\ arg[t] = MaxDataLen
        /\ port_wrote[t] = Ok(1)
        /\ result[t] = Ok(1)
        /\ driverOps[t] = 1

\* C23: open_serial_port releases the port it opened on every return path
\* (expected response, poll deadline, driver error), so each of the repeated
\* invocations finds the port free to open; once the port is open, a return
\* without a driver error is Ok, both on the expected response and at the
\* deadline, and a return with a driver error is that error; unexpected data
\* sends the loop on to its sleep and does not end the function.
C23_PortReleasedOnEveryReturn ==
    /\ [](osp_pc \in {"idle", "o_open", "done"} => ~port_held)
    /\ [](osp_pc = "o_open" => ENABLED osp_open_ok)
    /\ [][(osp_pc' = "done" /\ osp_pc \notin {"done", "o_open"})
            => /\ port_held /\ ~port_held'
               /\ osp_met' \in {"flush_err", "flush2_err", "write_err",
                                "avail_err", "read_err"}
                    <=> osp_result' \in {Err(k) : k \in DriverErrorKinds}
               /\ osp_result'.kind = "Ok"
                    <=> \/ osp_met' = "expected"
                        \/ osp_pc = "o_loop"
                             /\ osp_elapsed >= MAX_WAIT_TIME_MS]_vars
    /\ [][(osp_met' = "unexpected" /\ OspInLoop)
            => /\ osp_pc' = "o_sleep"
               /\ osp_result' = NoResult
               /\ port_held']_vars

\* the last of the ITERATIONS invocations returns Ok at the deadline after
\* unexpected data, the port released, an earlier invocation having failed
C23_Witness ==
    /\ osp_pc = "done"
    /\ osp_runs = ITERATIONS - 1
    /\ osp_errs >= 1
    /\ osp_result = Ok(0)
    /\ osp_met = "unexpected"
    /\ osp_elapsed >= MAX_WAIT_TIME_MS
    /\ ~port_held

=============================================================================
